---- MODULE Spec2Model ----
(***************************************************************************)
(* A model of the streaming playback engine of pixi-live2d-display:        *)
(*   StreamingAudioSource   (enhanced-live2d/streaming/StreamingAudioSource.ts)   *)
(*   KokoroStreamingManager (enhanced-live2d/streaming/KokoroStreamingManager.ts) *)
(*                                                                         *)
(* JavaScript runs one task at a time.  An action of this module is one    *)
(* synchronous run of code: an API call up to its first suspension, one    *)
(* microtask continuation, or one event-loop task (a source's `ended`      *)
(* event, a producer's 100 ms timer) together with the continuations it    *)
(* resumes.  Event-loop tasks run only when no microtask is pending.       *)
(*                                                                         *)
(* Volumes are in tenths (0.5 is 5).  Every AudioBuffer gets one           *)
(* AudioBufferSourceNode, so a buffer and its source node share one id.    *)
(***************************************************************************)
EXTENDS Integers, Sequences, FiniteSets, TLC

VARIABLES
    engines,      \* the StreamingAudioSource objects ever constructed
    buffers,      \* every AudioBuffer ever queued, in creation order
    started,      \* the buffers whose source.start() ran, in start order
    mgr,          \* the fields of the KokoroStreamingManager
    utts,         \* the generateSpeech invocations, in call order
    finishCount,  \* how often each caller's onFinish has fired
    errorCount,   \* how often each caller's onError has fired
    microtasks,   \* the pending promise continuations, FIFO
    cancelAt,     \* history: per utterance, the chunks emitted when stop() cut it
    player,       \* the fields of the StreamingLive2DAudioPlayer, and its sources
    wrap,         \* the speak wrappers of the VtuberGame integration
    dialogue,     \* the VtuberGameDialogue, its scene and its processQueue loops
    lastOp        \* the API call made last, and its argument or result

ProgVars == <<engines, buffers, started, mgr, utts, finishCount, errorCount,
              microtasks>>

vars == <<engines, buffers, started, mgr, utts, finishCount, errorCount,
          microtasks, cancelAt, player, wrap, dialogue, lastOp>>

\* ------------------------------------------------------------------ bounds
MaxEngines == 2
MaxUtter == 2
MaxBuffers == 3
MaxChunks == 3
MaxSources == 3
MaxDialogues == 3

\* --------------------------------------------------------------- constants
Null == 0
DefaultVolume == 5
SampleRate == 24000
ChunkSize == SampleRate \div 2

Engines == 1..MaxEngines
\* Callback identities: u in 1..MaxUtter is the pair of closures generateSpeech
\* invocation u registers; Direct is a pair handed to setCallbacks directly.
Direct == MaxUtter + 1
CallbackIds == 1..Direct

\* The inputs the callers draw from.
Volumes == {-5, 8, 15}
GenVolumes == {15}
TextLens == {0, 11}
Speeds == {-1, 0, 1, 2}
ChunkLens == {0, ChunkSize}
\* Math.ceil(Infinity): more chunks than any bound lets the producer emit.
Unbounded == MaxBuffers + 1

Range(s) == {s[i] : i \in DOMAIN s}

\* The whole program state as one value, so that the operations compose.
World ==
    [eng |-> engines, buf |-> buffers, started |-> started, mgr |-> mgr,
     utt |-> utts, fin |-> finishCount, err |-> errorCount, micro |-> microtasks]

SetWorld(w) ==
    /\ engines' = w.eng
    /\ buffers' = w.buf
    /\ started' = w.started
    /\ mgr' = w.mgr
    /\ utts' = w.utt
    /\ finishCount' = w.fin
    /\ errorCount' = w.err
    /\ microtasks' = w.micro

\* ---------------------------------------------------- StreamingAudioSource
NoEngine ==
    [created |-> FALSE, audioQueue |-> <<>>, isPlaying |-> FALSE,
     currentSource |-> Null, analyserNode |-> FALSE, gainNode |-> FALSE,
     gain |-> 0, volume |-> 0, onFinish |-> Null, onError |-> Null,
     ctxClosed |-> FALSE]

\* constructor + setupAudioNodes
NewEngine ==
    [created |-> TRUE, audioQueue |-> <<>>, isPlaying |-> FALSE,
     currentSource |-> Null, analyserNode |-> TRUE, gainNode |-> TRUE,
     gain |-> DefaultVolume, volume |-> DefaultVolume,
     onFinish |-> Null, onError |-> Null, ctxClosed |-> FALSE]

nEngines(w) == Cardinality({e \in Engines : w.eng[e].created})

Min(a, b) == IF a < b THEN a ELSE b
Max(a, b) == IF a > b THEN a ELSE b

\* Math.max(0, Math.min(1, volume)), in tenths
ClampNoUpper(v) == Max(0, v)
Clamp(v) == Max(0, Min(10, v))

setVolume(w, e, v) ==
    LET c == Clamp(v) IN
    IF w.eng[e].gainNode
    THEN [w EXCEPT !.eng[e].volume = c, !.eng[e].gain = c]
    ELSE [w EXCEPT !.eng[e].volume = c]

setCallbacks(w, e, f, g) ==
    [w EXCEPT !.eng[e].onFinish = f, !.eng[e].onError = g]

\* this.onFinish?.() : a closure of generateSpeech clears isGenerating and
\* calls the caller's onFinish; a direct callback is just called.
FireFinish(w, cb) ==
    IF cb = Null THEN w
    ELSE IF cb = Direct THEN [w EXCEPT !.fin[cb] = @ + 1]
    ELSE [w EXCEPT !.mgr.isGenerating = FALSE, !.fin[cb] = @ + 1]

\* this.onError?.(error)
FireError(w, cb) ==
    IF cb = Null THEN w
    ELSE IF cb = Direct THEN [w EXCEPT !.err[cb] = @ + 1]
    ELSE [w EXCEPT !.mgr.isGenerating = FALSE, !.err[cb] = @ + 1]

\* playBuffer: connect(this.gainNode!) throws once dispose() has nulled the
\* gain node; the promise is then rejected and the awaiting loop resumes in
\* a microtask.  Otherwise the source starts and the loop awaits its `ended`.
playBuffer(w, e, b) ==
    IF w.eng[e].gainNode
    THEN [w EXCEPT !.eng[e].currentSource = b,
                   !.buf[b].st = "playing",
                   !.started = Append(@, b)]
    ELSE [w EXCEPT !.eng[e].currentSource = Null,
                   !.buf[b].st = "failed",
                   !.micro = Append(@, [t |-> "rejected", e |-> e])]

\* the finally block of playAudioQueue
drained(w, e) ==
    FireFinish([w EXCEPT !.eng[e].isPlaying = FALSE], w.eng[e].onFinish)

\* the head of the queue: this.audioQueue.shift()
shiftLast(q) == <<q[Len(q)], SubSeq(q, 1, Len(q) - 1)>>
shift(q) == <<Head(q), Tail(q)>>

\* one turn of the while loop of playAudioQueue, up to its await; or, with
\* the queue empty, the loop's exit through finally
drain(w, e) ==
    IF w.eng[e].audioQueue # <<>>
    THEN LET s == shift(w.eng[e].audioQueue) IN
         playBuffer([w EXCEPT !.eng[e].audioQueue = s[2]], e, s[1])
    ELSE drained(w, e)

playAudioQueue(w, e) ==
    IF w.eng[e].isPlaying \/ w.eng[e].audioQueue = <<>>
    THEN w
    ELSE drain([w EXCEPT !.eng[e].isPlaying = TRUE], e)

\* createBuffer(1, 0, rate) throws NotSupportedError: the catch reports it
queueAudioChunk(w, e, u, len) ==
    IF len = 0
    THEN FireError(w, w.eng[e].onError)
    ELSE LET b == Len(w.buf) + 1 IN
         playAudioQueue(
             [w EXCEPT !.buf = Append(@, [engine |-> e, utt |-> u, st |-> "queued"]),
                       !.eng[e].audioQueue = Append(@, b)], e)

\* source.onended: clears currentSource, resolves the promise; the loop that
\* awaited it goes on
onended(w, b) ==
    LET e == w.buf[b].engine IN
    drain([w EXCEPT !.eng[e].currentSource = Null, !.buf[b].st = "ended"], e)

\* the catch and finally blocks of playAudioQueue, after a rejected playBuffer
playRejected(w, e) ==
    drained(FireError(w, w.eng[e].onError), e)

stopReleasing(w, e) ==
    [w EXCEPT !.eng[e].audioQueue = <<>>, !.eng[e].isPlaying = FALSE,
              !.eng[e].gainNode = FALSE]

\* stop(): a non-null currentSource has been started, so its stop() cannot throw
stop(w, e) ==
    LET cs == w.eng[e].currentSource
        q == Range(w.eng[e].audioQueue)
        w1 == IF cs # Null
              THEN [w EXCEPT !.buf[cs].st = "stopped", !.eng[e].currentSource = Null]
              ELSE w
    IN [w1 EXCEPT !.buf = [i \in DOMAIN @ |->
                              IF i \in q THEN [@[i] EXCEPT !.st = "cleared"] ELSE @[i]],
                  !.eng[e].audioQueue = <<>>,
                  !.eng[e].isPlaying = FALSE]

getAnalyser(w, e) == w.eng[e].analyserNode

isAudioPlaying(w, e) == w.eng[e].isPlaying

dispose(w, e) ==
    LET w1 == stop(w, e) IN
    [w1 EXCEPT !.eng[e].analyserNode = FALSE,
               !.eng[e].gainNode = FALSE,
               !.eng[e].ctxClosed = TRUE]

\* -------------------------------------------------- KokoroStreamingManager
NewManager ==
    [isInitialized |-> FALSE, isGenerating |-> FALSE,
     streamingAudioSource |-> Null, voices |-> FALSE]

NewUtterance(st, total, sent) ==
    [st |-> st, total |-> total, sent |-> sent]

\* initialize(), up to `await this.initializeTTSWorker()`; the worker's body
\* (the voices) runs before the await
initializeUnguarded(w) ==
    LET e == nEngines(w) + 1 IN
    [w EXCEPT !.eng[e] = NewEngine,
              !.mgr.streamingAudioSource = e,
              !.mgr.voices = TRUE,
              !.micro = Append(@, [t |-> "initDone", e |-> 0])]

initializeNoGuard(w) == initializeUnguarded(w)

initialize(w) ==
    IF w.mgr.isInitialized THEN w ELSE initializeUnguarded(w)

\* initialize(), after the await
initializeDone(w) == [w EXCEPT !.mgr.isInitialized = TRUE]

\* generateTestAudio's chunk count:
\*   duration = Math.max(text.length * 0.1 / speed, 1)
\*   samples = Math.floor(duration * 24000); numChunks = Math.ceil(samples / 12000)
\* 0 * 0.1 / 0 is NaN (the loop body never runs); n * 0.1 / 0 is Infinity.
NumChunks(len, speed) ==
    IF speed = 0
    THEN (IF len = 0 THEN 0 ELSE Unbounded)
    ELSE LET samples == IF speed < 0
                        THEN SampleRate
                        ELSE Max((len * (SampleRate \div 10)) \div speed, SampleRate)
         IN (samples + ChunkSize - 1) \div ChunkSize

\* generateSpeech past its two guards: the try block, up to the first timer
\* of generateTestAudio, and the catch block
generateSpeechAccepted(w, len, speed, vol) ==
    LET u == Len(w.utt) + 1
        src == w.mgr.streamingAudioSource
        n == NumChunks(len, speed)
        w1 == [w EXCEPT !.mgr.isGenerating = TRUE]
    IN  IF src = Null
        THEN [w EXCEPT !.mgr.isGenerating = FALSE,
                       !.err[u] = @ + 1,
                       !.utt = Append(@, NewUtterance("nosrc", 0, 0))]
        ELSE LET w2 == setCallbacks(setVolume(w1, src, vol), src, u, u) IN
             IF n = 0
             THEN [w2 EXCEPT !.utt = Append(@, NewUtterance("done", 0, 0))]
             ELSE queueAudioChunk(
                      [w2 EXCEPT !.utt = Append(@, NewUtterance("timer", n, 1))],
                      src, u, ChunkSize)

generateSpeechNoBusyCheck(w, len, speed, vol) ==
    IF ~w.mgr.isInitialized
    THEN [w EXCEPT !.utt = Append(@, NewUtterance("uninit", 0, 0))]
    ELSE generateSpeechAccepted(w, len, speed, vol)

generateSpeechFlagFirst(w, len, speed, vol) ==
    IF ~w.mgr.isInitialized
    THEN [w EXCEPT !.mgr.isGenerating = TRUE,
                   !.utt = Append(@, NewUtterance("uninit", 0, 0))]
    ELSE IF w.mgr.isGenerating
    THEN [w EXCEPT !.utt = Append(@, NewUtterance("busy", 0, 0))]
    ELSE generateSpeechAccepted(w, len, speed, vol)

\* generateSpeech(text, {speed, volume, onFinish, onError})
generateSpeech(w, len, speed, vol) ==
    IF ~w.mgr.isInitialized
    THEN [w EXCEPT !.utt = Append(@, NewUtterance("uninit", 0, 0))]
    ELSE IF w.mgr.isGenerating
    THEN [w EXCEPT !.utt = Append(@, NewUtterance("busy", 0, 0))]
    ELSE generateSpeechAccepted(w, len, speed, vol)

producerStepSilent(w, u) ==
    LET src == w.mgr.streamingAudioSource IN
    IF w.utt[u].sent >= w.utt[u].total
    THEN [w EXCEPT !.utt[u].st = "done"]
    ELSE IF src = Null
    THEN [w EXCEPT !.mgr.isGenerating = FALSE, !.utt[u].st = "failed"]
    ELSE queueAudioChunk([w EXCEPT !.utt[u].sent = @ + 1], src, u, ChunkSize)

\* generateTestAudio after its 100 ms timer: the next chunk, or the end of
\* the loop and generateSpeech's `return true`.  With the source gone
\* (dispose), this.streamingAudioSource.queueAudioChunk throws a TypeError
\* into generateSpeech's catch.
producerStep(w, u) ==
    LET src == w.mgr.streamingAudioSource IN
    IF w.utt[u].sent >= w.utt[u].total
    THEN [w EXCEPT !.utt[u].st = "done"]
    ELSE IF src = Null
    THEN [w EXCEPT !.mgr.isGenerating = FALSE,
                   !.err[u] = @ + 1,
                   !.utt[u].st = "failed"]
    ELSE queueAudioChunk([w EXCEPT !.utt[u].sent = @ + 1], src, u, ChunkSize)

mgrStop(w) ==
    LET src == w.mgr.streamingAudioSource
        w1 == IF src # Null THEN stop(w, src) ELSE w
    IN [w1 EXCEPT !.mgr.isGenerating = FALSE]

mgrGetAnalyser(w) ==
    IF w.mgr.streamingAudioSource = Null
    THEN FALSE
    ELSE getAnalyser(w, w.mgr.streamingAudioSource)

mgrDisposeKeepInit(w) ==
    LET src == w.mgr.streamingAudioSource
        w1 == mgrStop(w)
        w2 == IF src # Null THEN dispose(w1, src) ELSE w1
    IN [w2 EXCEPT !.mgr.streamingAudioSource = Null]

mgrDispose(w) ==
    LET src == w.mgr.streamingAudioSource
        w1 == mgrStop(w)
        w2 == IF src # Null THEN dispose(w1, src) ELSE w1
    IN [w2 EXCEPT !.mgr.streamingAudioSource = Null,
                  !.mgr.isInitialized = FALSE]

\* History only: stop() was called while the producer of an utterance was
\* still running; remember how many chunks it had emitted by then.
MarkCancelled ==
    cancelAt' = [u \in DOMAIN cancelAt |->
        IF u \in DOMAIN utts /\ utts[u].st = "timer" /\ cancelAt[u] < 0
        THEN utts[u].sent
        ELSE cancelAt[u]]

\* ---------------------------------------------- StreamingLive2DAudioPlayer
\* The constructor's fields.  sources lists every AudioBufferSourceNode that
\* playCurrentChunks started, with the chunks combined into its buffer;
\* awaiting counts the activations of startStreamingPlayback suspended in
\* `await this.initializeAudioContext()`; acks counts the 'buffer_processed'
\* messages posted to the worker.
NewPlayer ==
    [audioChunks |-> <<>>, isStreaming |-> FALSE, processedAudioChunks |-> 0,
     audioContext |-> FALSE, sourceNode |-> Null, isFirstChunk |-> TRUE,
     lipSyncEnabled |-> FALSE, live2dModel |-> TRUE,
     sources |-> <<>>, awaiting |-> 0, queued |-> 0, acks |-> 0]

\* initializeAudioContext, up to its await
initializeAudioContext(p) == [p EXCEPT !.audioContext = TRUE]

\* startStreamingPlayback, up to `await this.initializeAudioContext()`
startStreamingPlayback(p) ==
    IF p.isStreaming THEN p
    ELSE [initializeAudioContext([p EXCEPT !.isStreaming = TRUE])
             EXCEPT !.awaiting = @ + 1]

startLipSync(p) ==
    IF ~p.live2dModel \/ p.lipSyncEnabled THEN p
    ELSE [p EXCEPT !.lipSyncEnabled = TRUE]

\* this.sourceNode.stop(): silences the source unless it has already ended
sourceNodeStop(p) ==
    IF p.sources[p.sourceNode].st = "playing"
    THEN [p EXCEPT !.sources[p.sourceNode].st = "stopped"]
    ELSE p

\* playCurrentChunks: one buffer of all the chunks held, started at once.
\* With the context gone (cleanup) createBuffer throws into the catch.
playCurrentChunks(p) ==
    IF p.audioChunks = <<>> \/ ~p.audioContext THEN p
    ELSE LET p1 == IF p.sourceNode # Null THEN sourceNodeStop(p) ELSE p
         IN [p1 EXCEPT !.sources = Append(@, [chunks |-> p.audioChunks,
                                              st |-> "playing"]),
                       !.sourceNode = Len(p.sources) + 1]

\* startStreamingPlayback, after the await
startStreamingPlaybackResumed(p) ==
    playCurrentChunks(startLipSync([p EXCEPT !.awaiting = @ - 1]))

\* startStreamingPlayback, when the await throws: the catch block
startStreamingPlaybackFailed(p) ==
    [p EXCEPT !.awaiting = @ - 1, !.isStreaming = FALSE]

queueAudioAckOnStart(p) ==
    LET c == p.queued + 1
        p1 == [p EXCEPT !.audioChunks = Append(@, c),
                        !.queued = c,
                        !.processedAudioChunks = @ + 1]
    IN IF p1.isFirstChunk /\ ~p1.isStreaming
       THEN [startStreamingPlayback([p1 EXCEPT !.isFirstChunk = FALSE])
                EXCEPT !.acks = @ + 1]
       ELSE p1

queueAudio(p) ==
    LET c == p.queued + 1
        p1 == [p EXCEPT !.audioChunks = Append(@, c),
                        !.queued = c,
                        !.processedAudioChunks = @ + 1]
        p2 == IF p1.isFirstChunk /\ ~p1.isStreaming
              THEN startStreamingPlayback([p1 EXCEPT !.isFirstChunk = FALSE])
              ELSE p1
    IN [p2 EXCEPT !.acks = @ + 1]

\* finalizeAudio with chunks to finalize; with none it throws
finalizeAudio(p) == playCurrentChunks(p)

playerStop(p) ==
    LET p1 == [p EXCEPT !.isStreaming = FALSE, !.lipSyncEnabled = FALSE] IN
    IF p1.sourceNode # Null
    THEN [sourceNodeStop(p1) EXCEPT !.sourceNode = Null]
    ELSE p1

playerResetKeepFlag(p) ==
    [playerStop(p) EXCEPT !.audioChunks = <<>>, !.processedAudioChunks = 0]

playerReset(p) ==
    [playerStop(p) EXCEPT !.audioChunks = <<>>,
                          !.processedAudioChunks = 0,
                          !.isFirstChunk = TRUE]

playerCleanup(p) == [playerReset(p) EXCEPT !.audioContext = FALSE]

\* ------------------------------------- vtubergame-integration/src/index.ts
\* An option the caller left out (undefined).  Speeds and volumes are in
\* tenths; a voice is a number.
Absent == -1
AfHeart == 1
BuiltinSpeed == 10
BuiltinVolume == 8

\* what the callers supply
OptVoices == {Absent, 2}
OptSpeeds == {Absent, 0, 7, 15}
OptVolumes == {Absent, 0, 3, 10}
CfgVoices == {Absent, 3}
CfgSpeeds == {Absent, 12}
CfgVolumes == {Absent, 0, 5}

Options ==
    [voice : OptVoices, speed : OptSpeeds, volume : OptVolumes, onError : BOOLEAN]
Configs ==
    [defaultVoice : CfgVoices, defaultSpeed : CfgSpeeds, defaultVolume : CfgVolumes]

NoOptions == [voice |-> Absent, speed |-> Absent, volume |-> Absent, onError |-> FALSE]
NoForward == [voice |-> Absent, speed |-> Absent, volume |-> Absent]

\* JavaScript's a || b and !a on an optional number: undefined and 0 are
\* both falsy
Falsy(a) == a = Absent \/ a = 0
Or(a, b) == IF Falsy(a) THEN b ELSE a

\* setupVtuberGameTTS(model) and new VtuberGameTTSMigrator(model): an empty
\* config, streaming in use; no call made yet
NewWrap ==
    [config |-> [defaultVoice |-> Absent, defaultSpeed |-> Absent,
                 defaultVolume |-> Absent],
     useStreaming |-> TRUE,
     via |-> "none", options |-> NoOptions, forwarded |-> NoForward,
     st |-> "idle", onErrorCalls |-> 0, logged |-> 0]

\* enhancedModel.speakText, up to `await this.motionManager.speakText(...)`
speakText(x, o) ==
    [x EXCEPT !.forwarded = [voice |-> Or(o.voice, AfHeart),
                             speed |-> Or(o.speed, BuiltinSpeed),
                             volume |-> Or(o.volume, BuiltinVolume)],
              !.st = "pending", !.onErrorCalls = 0, !.logged = 0]

\* speakText when motionManager.speakText resolves
speakTextResolved(x) == [x EXCEPT !.st = "resolved"]

\* speakText when motionManager.speakText rejects, without the catch block
speakTextUncaught(x) == [x EXCEPT !.st = "rejected"]

\* speakText when motionManager.speakText rejects: the catch block
speakTextCaught(x) ==
    IF x.options.onError
    THEN [x EXCEPT !.onErrorCalls = @ + 1, !.st = "resolved"]
    ELSE [x EXCEPT !.logged = @ + 1, !.st = "resolved"]

\* setupVtuberGameTTS's speak: the config's defaults, then speakText
speak(x, o) ==
    LET c == x.config
        o1 == [o EXCEPT
                 !.voice = IF Falsy(o.voice) THEN Or(c.defaultVoice, AfHeart) ELSE @,
                 !.speed = IF Falsy(o.speed) THEN Or(c.defaultSpeed, BuiltinSpeed) ELSE @,
                 !.volume = IF Falsy(o.volume) THEN Or(c.defaultVolume, BuiltinVolume) ELSE @]
    IN speakText(x, o1)

\* VtuberGameTTSMigrator.speak
migratorSpeak(x, o) ==
    IF x.useStreaming
    THEN speakText(x, o)
    ELSE [x EXCEPT !.forwarded = NoForward, !.st = "rejected",
                   !.onErrorCalls = 0, !.logged = 0]

\* ------------------------------------- VtuberGameScene, VtuberGameDialogue
\* the names a dialogue may give; "ghost" is never added to the scene
SceneCharacters == {"alice", "bob"}
CharacterNames == SceneCharacters \cup {"ghost"}
NoSpeaker == "none"

\* new VtuberGameScene(), new VtuberGameDialogue(scene).  loops holds the
\* activations of processQueue with the await each is suspended at; calls and
\* failed record the characterSpeak calls made and the dialogues caught.
NewDialogue ==
    [characters |-> {}, currentSpeaker |-> NoSpeaker,
     dialogueQueue |-> <<>>, isProcessing |-> FALSE,
     loops |-> <<>>, calls |-> <<>>, failed |-> {}, added |-> 0]

RemoveAt(s, i) == [k \in 1..(Len(s) - 1) |-> IF k < i THEN s[k] ELSE s[k + 1]]

\* scene.addCharacter, at the point its character.initialize has resolved
addCharacter(d, name) == [d EXCEPT !.characters = @ \cup {name}]

\* scene.characterSpeak called by activation i, up to its first await: it
\* throws for an unknown character, else it makes the character the current
\* speaker and awaits character.speak
characterSpeak(d, i, item) ==
    IF item.characterName \notin d.characters
    THEN [d EXCEPT !.calls = Append(@, item.id),
                   !.loops[i] = [at |-> "rejected", item |-> item.id]]
    ELSE [d EXCEPT !.calls = Append(@, item.id),
                   !.currentSpeaker = item.characterName,
                   !.loops[i] = [at |-> "speak", item |-> item.id]]

\* one evaluation of the while condition of processQueue by activation i
iterate(d, i) ==
    IF Len(d.dialogueQueue) > 0
    THEN characterSpeak([d EXCEPT !.dialogueQueue = Tail(@)], i,
                        Head(d.dialogueQueue))
    ELSE [d EXCEPT !.isProcessing = FALSE, !.loops = RemoveAt(@, i)]

processQueue(d) ==
    iterate([d EXCEPT !.isProcessing = TRUE,
                      !.loops = Append(@, [at |-> "start", item |-> 0])],
            Len(d.loops) + 1)

addDialogueUnguarded(d, characterName) ==
    processQueue([d EXCEPT !.added = @ + 1,
                           !.dialogueQueue =
                               Append(@, [id |-> d.added + 1,
                                          characterName |-> characterName])])

addDialogue(d, characterName) ==
    LET d1 == [d EXCEPT !.added = @ + 1,
                        !.dialogueQueue =
                            Append(@, [id |-> d.added + 1,
                                       characterName |-> characterName])]
    IN IF ~d1.isProcessing THEN processQueue(d1) ELSE d1

\* characterSpeak resolved: activation i goes on to the 500 ms pause
characterSpeakResolved(d, i) == [d EXCEPT !.loops[i].at = "timer"]

\* characterSpeak rejected: the catch inside the loop logs, and the loop
\* continues with the next dialogue
characterSpeakRejected(d, i) ==
    iterate([d EXCEPT !.failed = @ \cup {d.loops[i].item}], i)

\* the onFinish that characterSpeak passes on
speakOnFinish(d) == [d EXCEPT !.currentSpeaker = NoSpeaker]

\* ----------------------------------------------------------------- actions
\* lastOp: the call made last, one argument or result of it, and whether it
\* threw to its caller.  No operation of either class throws: every failure
\* is caught inside and reported through onError.
Call(op, arg) == [op |-> op, arg |-> arg, threw |-> FALSE]

Init ==
    /\ engines = [e \in Engines |-> NoEngine]
    /\ buffers = <<>>
    /\ started = <<>>
    /\ mgr = NewManager
    /\ utts = <<>>
    /\ finishCount = [c \in CallbackIds |-> 0]
    /\ errorCount = [c \in CallbackIds |-> 0]
    /\ microtasks = <<>>
    /\ cancelAt = [u \in 1..MaxUtter |-> -1]
    /\ player = NewPlayer
    /\ wrap = NewWrap
    /\ dialogue = NewDialogue
    /\ lastOp = Call("new", 0)

Pending(b) == buffers[b].st \in {"playing", "finished", "stopped"}

\* The audio thread renders the last sample of a started source.  The `ended`
\* event is only queued as a task then; the main thread, which alone starts
\* the next source, has yet to run it.
Finished(b) ==
    /\ buffers[b].st = "playing"
    /\ buffers' = [buffers EXCEPT ![b].st = "finished"]
    /\ UNCHANGED <<engines, started, mgr, utts, finishCount, errorCount,
                   microtasks, cancelAt, player, wrap, dialogue, lastOp>>

\* The event loop delivers a source's `ended` event: the buffer played to
\* its end, or stop() was called on the source.
Ended(b) ==
    /\ microtasks = <<>>
    /\ Pending(b)
    /\ SetWorld(onended(World, b))
    /\ UNCHANGED <<cancelAt, player, wrap, dialogue>>
    /\ lastOp' = Call("event", 0)

\* The oldest pending continuation runs.
Microtask ==
    /\ microtasks # <<>>
    /\ LET m == Head(microtasks)
           w == [World EXCEPT !.micro = Tail(@)]
       IN IF m.t = "initDone"
          THEN SetWorld(initializeDone(w))
          ELSE SetWorld(playRejected(w, m.e))
    /\ UNCHANGED <<cancelAt, player, wrap, dialogue>>
    /\ lastOp' = Call("event", 0)

Initialize ==
    /\ mgr.isInitialized \/ nEngines(World) < MaxEngines
    /\ SetWorld(initialize(World))
    /\ UNCHANGED <<cancelAt, player, wrap, dialogue>>
    /\ lastOp' = Call("initialize", IF mgr.isInitialized THEN 1 ELSE 0)

GenerateSpeech(len, speed, vol) ==
    /\ Len(utts) < MaxUtter
    /\ Len(buffers) < MaxBuffers
    /\ SetWorld(generateSpeech(World, len, speed, vol))
    /\ UNCHANGED <<cancelAt, player, wrap, dialogue>>
    /\ lastOp' = Call("generateSpeech", len)

Timer(u) ==
    /\ microtasks = <<>>
    /\ utts[u].st = "timer"
    /\ utts[u].sent >= utts[u].total \/ Len(buffers) < MaxBuffers
    /\ SetWorld(producerStep(World, u))
    /\ UNCHANGED <<cancelAt, player, wrap, dialogue>>
    /\ lastOp' = Call("event", 0)

Stop ==
    /\ SetWorld(mgrStop(World))
    /\ MarkCancelled
    /\ UNCHANGED <<player, wrap, dialogue>>
    /\ lastOp' = Call("stop", 0)

Dispose ==
    /\ SetWorld(mgrDispose(World))
    /\ MarkCancelled
    /\ UNCHANGED <<player, wrap, dialogue>>
    /\ lastOp' = Call("dispose", 0)

Next ==
    \/ Initialize
    \/ \E len \in TextLens, speed \in Speeds, vol \in GenVolumes :
           GenerateSpeech(len, speed, vol)
    \/ \E u \in DOMAIN utts : Timer(u)
    \/ \E b \in DOMAIN buffers : Ended(b)
    \/ Microtask
    \/ Stop
    \/ Dispose

Spec == Init /\ [][Next]_vars

\* ------------------------------- a StreamingAudioSource used on its own
Live(e) == engines[e].created

SrcNew ==
    /\ nEngines(World) = 0
    /\ engines' = [engines EXCEPT ![1] = NewEngine]
    /\ UNCHANGED <<buffers, started, mgr, utts, finishCount, errorCount, microtasks>>
    /\ UNCHANGED <<cancelAt, player, wrap, dialogue>>
    /\ lastOp' = Call("new", 1)

SrcSetVolume(e, v) ==
    /\ Live(e)
    /\ SetWorld(setVolume(World, e, v))
    /\ UNCHANGED <<cancelAt, player, wrap, dialogue>>
    /\ lastOp' = Call("setVolume", v)

SrcSetCallbacks(e, f, g) ==
    /\ Live(e)
    /\ SetWorld(setCallbacks(World, e, f, g))
    /\ UNCHANGED <<cancelAt, player, wrap, dialogue>>
    /\ lastOp' = Call("setCallbacks", e)

SrcQueueAudioChunk(e, len) ==
    /\ Live(e)
    /\ Len(buffers) + errorCount[Direct] < MaxBuffers
    /\ SetWorld(queueAudioChunk(World, e, 0, len))
    /\ UNCHANGED <<cancelAt, player, wrap, dialogue>>
    /\ lastOp' = Call("queueAudioChunk", len)

SrcStop(e) ==
    /\ Live(e)
    /\ SetWorld(stop(World, e))
    /\ UNCHANGED <<cancelAt, player, wrap, dialogue>>
    /\ lastOp' = Call("stop", e)

SrcDispose(e) ==
    /\ Live(e)
    /\ SetWorld(dispose(World, e))
    /\ UNCHANGED <<cancelAt, player, wrap, dialogue>>
    /\ lastOp' = Call("dispose", e)

SrcGetAnalyser(e) ==
    /\ Live(e)
    /\ UNCHANGED ProgVars
    /\ UNCHANGED <<cancelAt, player, wrap, dialogue>>
    /\ lastOp' = Call("getAnalyser", IF getAnalyser(World, e) THEN 1 ELSE 0)

SrcNext ==
    \/ SrcNew
    \/ \E e \in Engines, v \in Volumes : SrcSetVolume(e, v)
    \/ \E e \in Engines, f \in {Null, Direct}, g \in {Null, Direct} :
           SrcSetCallbacks(e, f, g)
    \/ \E e \in Engines, len \in ChunkLens : SrcQueueAudioChunk(e, len)
    \/ \E e \in Engines : SrcStop(e)
    \/ \E e \in Engines : SrcDispose(e)
    \/ \E e \in Engines : SrcGetAnalyser(e)
    \/ \E b \in DOMAIN buffers : Ended(b)
    \/ Microtask

SrcSpec == Init /\ [][SrcNext]_vars

\* ------------- the same, with the audio thread's progress made visible
GapNext ==
    \/ SrcNext
    \/ \E b \in DOMAIN buffers : Finished(b)

GapSpec == Init /\ [][GapNext]_vars

\* ------------------------------------- a StreamingLive2DAudioPlayer in use
PlayerQueueAudio ==
    /\ player.queued < MaxChunks
    /\ player' = queueAudio(player)
    /\ UNCHANGED <<ProgVars, cancelAt, wrap, dialogue>>
    /\ lastOp' = Call("queueAudio", player.queued + 1)

\* audioContext.resume() has resolved, or there was nothing to resume
PlayerResumed ==
    /\ player.awaiting > 0
    /\ Len(player.sources) < MaxSources
    /\ player' = startStreamingPlaybackResumed(player)
    /\ UNCHANGED <<ProgVars, cancelAt, wrap, dialogue>>
    /\ lastOp' = Call("event", 0)

\* resume() rejects, its context having been closed by cleanup()
PlayerResumeFailed ==
    /\ player.awaiting > 0
    /\ ~player.audioContext
    /\ player' = startStreamingPlaybackFailed(player)
    /\ UNCHANGED <<ProgVars, cancelAt, wrap, dialogue>>
    /\ lastOp' = Call("event", 0)

PlayerFinalizeAudio ==
    /\ Len(player.sources) < MaxSources
    /\ IF player.audioChunks = <<>>
       THEN /\ UNCHANGED player
            /\ lastOp' = [op |-> "finalizeAudio", arg |-> 0, threw |-> TRUE]
       ELSE /\ player' = finalizeAudio(player)
            /\ lastOp' = Call("finalizeAudio", 0)
    /\ UNCHANGED <<ProgVars, cancelAt, wrap, dialogue>>

PlayerStop ==
    /\ player' = playerStop(player)
    /\ UNCHANGED <<ProgVars, cancelAt, wrap, dialogue>>
    /\ lastOp' = Call("stop", 0)

PlayerReset ==
    /\ player' = playerReset(player)
    /\ UNCHANGED <<ProgVars, cancelAt, wrap, dialogue>>
    /\ lastOp' = Call("reset", 0)

PlayerCleanup ==
    /\ player' = playerCleanup(player)
    /\ UNCHANGED <<ProgVars, cancelAt, wrap, dialogue>>
    /\ lastOp' = Call("cleanup", 0)

PlayerSetLive2DModel(m) ==
    /\ player' = [player EXCEPT !.live2dModel = m]
    /\ UNCHANGED <<ProgVars, cancelAt, wrap, dialogue>>
    /\ lastOp' = Call("setLive2DModel", 0)

\* a started source plays its buffer to the end; the player has no handler
PlayerSourceEnded(n) ==
    /\ player.sources[n].st = "playing"
    /\ player' = [player EXCEPT !.sources[n].st = "ended"]
    /\ UNCHANGED <<ProgVars, cancelAt, wrap, dialogue>>
    /\ lastOp' = Call("event", 0)

PlayerNext ==
    \/ PlayerQueueAudio
    \/ PlayerResumed
    \/ PlayerResumeFailed
    \/ PlayerFinalizeAudio
    \/ PlayerStop
    \/ PlayerReset
    \/ PlayerCleanup
    \/ \E m \in BOOLEAN : PlayerSetLive2DModel(m)
    \/ \E n \in DOMAIN player.sources : PlayerSourceEnded(n)

PlayerSpec == Init /\ [][PlayerNext]_vars

\* ------------------------------------------------ the speak wrappers in use
Idle == wrap.st = "idle"

SetupVtuberGameTTS(c) ==
    /\ Idle
    /\ wrap' = [wrap EXCEPT !.config = c]
    /\ UNCHANGED <<ProgVars, cancelAt, player, dialogue>>
    /\ lastOp' = Call("setupVtuberGameTTS", 0)

\* new VtuberGameTTSMigrator(model, useStreaming)
NewMigrator(useStreaming, hasTTSSupport) ==
    /\ Idle
    /\ wrap' = [wrap EXCEPT !.useStreaming = useStreaming /\ hasTTSSupport]
    /\ UNCHANGED <<ProgVars, cancelAt, player, dialogue>>
    /\ lastOp' = Call("newMigrator", 0)

SpeakText(o) ==
    /\ Idle
    /\ wrap' = [speakText(wrap, o) EXCEPT !.via = "speakText", !.options = o]
    /\ UNCHANGED <<ProgVars, cancelAt, player, dialogue>>
    /\ lastOp' = Call("speakText", 0)

Speak(o) ==
    /\ Idle
    /\ wrap' = [speak(wrap, o) EXCEPT !.via = "speak", !.options = o]
    /\ UNCHANGED <<ProgVars, cancelAt, player, dialogue>>
    /\ lastOp' = Call("speak", 0)

MigratorSpeak(o) ==
    /\ Idle
    /\ wrap' = [migratorSpeak(wrap, o) EXCEPT !.via = "migrator", !.options = o]
    /\ UNCHANGED <<ProgVars, cancelAt, player, dialogue>>
    /\ lastOp' = Call("migratorSpeak", 0)

\* motionManager.speakText settles: it resolves, or it rejects
UnderlyingResolves ==
    /\ wrap.st = "pending"
    /\ wrap' = speakTextResolved(wrap)
    /\ UNCHANGED <<ProgVars, cancelAt, player, dialogue>>
    /\ lastOp' = Call("event", 0)

UnderlyingRejects ==
    /\ wrap.st = "pending"
    /\ wrap' = speakTextCaught(wrap)
    /\ UNCHANGED <<ProgVars, cancelAt, player, dialogue>>
    /\ lastOp' = Call("event", 1)

\* the caller's await of the wrapper's promise completes
Settled ==
    /\ wrap.st \in {"resolved", "rejected"}
    /\ wrap' = [NewWrap EXCEPT !.config = wrap.config,
                               !.useStreaming = wrap.useStreaming]
    /\ UNCHANGED <<ProgVars, cancelAt, player, dialogue>>
    /\ lastOp' = Call("event", 0)

WrapNext ==
    \/ \E c \in Configs : SetupVtuberGameTTS(c)
    \/ \E us \in BOOLEAN, has \in BOOLEAN : NewMigrator(us, has)
    \/ \E o \in Options : SpeakText(o)
    \/ \E o \in Options : Speak(o)
    \/ \E o \in Options : MigratorSpeak(o)
    \/ UnderlyingResolves
    \/ UnderlyingRejects
    \/ Settled

WrapSpec == Init /\ [][WrapNext]_vars

\* ------------------------------------------------- the dialogue queue in use
SceneAddCharacter(name) ==
    /\ name \notin dialogue.characters
    /\ dialogue' = addCharacter(dialogue, name)
    /\ UNCHANGED <<ProgVars, cancelAt, player, wrap>>
    /\ lastOp' = Call("addCharacter", 0)

AddDialogue(name) ==
    /\ dialogue.added < MaxDialogues
    /\ dialogue' = addDialogue(dialogue, name)
    /\ UNCHANGED <<ProgVars, cancelAt, player, wrap>>
    /\ lastOp' = Call("addDialogue", dialogue.added + 1)

CharacterSpeakResolves(i) ==
    /\ dialogue.loops[i].at = "speak"
    /\ dialogue' = characterSpeakResolved(dialogue, i)
    /\ UNCHANGED <<ProgVars, cancelAt, player, wrap>>
    /\ lastOp' = Call("event", 0)

CharacterSpeakRejects(i) ==
    /\ dialogue.loops[i].at = "rejected"
    /\ dialogue' = characterSpeakRejected(dialogue, i)
    /\ UNCHANGED <<ProgVars, cancelAt, player, wrap>>
    /\ lastOp' = Call("event", 1)

\* the 500 ms pause between dialogues is over
PauseOver(i) ==
    /\ dialogue.loops[i].at = "timer"
    /\ dialogue' = iterate(dialogue, i)
    /\ UNCHANGED <<ProgVars, cancelAt, player, wrap>>
    /\ lastOp' = Call("event", 2)

SpeakOnFinish ==
    /\ dialogue.currentSpeaker # NoSpeaker
    /\ dialogue' = speakOnFinish(dialogue)
    /\ UNCHANGED <<ProgVars, cancelAt, player, wrap>>
    /\ lastOp' = Call("event", 3)

DialogueNext ==
    \/ \E name \in SceneCharacters : SceneAddCharacter(name)
    \/ \E name \in CharacterNames : AddDialogue(name)
    \/ \E i \in DOMAIN dialogue.loops : CharacterSpeakResolves(i)
    \/ \E i \in DOMAIN dialogue.loops : CharacterSpeakRejects(i)
    \/ \E i \in DOMAIN dialogue.loops : PauseOver(i)
    \/ SpeakOnFinish

DialogueSpec == Init /\ [][DialogueNext]_vars

\* ------------------------------------------------------------ properties
OnEngine(e) == {b \in DOMAIN buffers : buffers[b].engine = e}
StartedOn(e) == SelectSeq(started, LAMBDA b : buffers[b].engine = e)
\* a buffer stop() took out of the queue, or one whose playBuffer was rejected
Removed(b) == buffers[b].st \in {"cleared", "failed"}
\* the buffers queued on e and not removed, in the order they were queued
KeptOn(e) ==
    SelectSeq([i \in 1..Len(buffers) |-> i],
              LAMBDA b : buffers[b].engine = e /\ ~Removed(b))
IsPrefix(s, t) == Len(s) <= Len(t) /\ SubSeq(t, 1, Len(s)) = s

Invoked == DOMAIN utts
\* generateSpeech passed its two guards
AcceptedStates == {"timer", "done", "failed", "nosrc"}
Accepted(u) == utts[u].st \in AcceptedStates
Terminals(u) == finishCount[u] + errorCount[u]
\* nothing is left to happen: no continuation, no source that has yet to
\* deliver `ended`, no producer waiting on its timer
Quiescent ==
    /\ microtasks = <<>>
    /\ \A b \in DOMAIN buffers : ~Pending(b)
    /\ \A u \in Invoked : utts[u].st # "timer"

\* C1: on every StreamingAudioSource the buffers start in arrival order: the
\* k-th buffer to start is the k-th buffer queued that stop() has not removed;
\* with no stop() nothing is removed, and it is the k-th buffer queued.
C1_ArrivalOrder ==
    \A e \in Engines : IsPrefix(StartedOn(e), KeptOn(e))

\* C1 witness: three buffers have started on a source nothing was removed
\* from, the third after the queue had drained once (onFinish fired).
C1_Witness ==
    /\ Len(StartedOn(1)) = 3
    /\ \A b \in OnEngine(1) : ~Removed(b)
    /\ finishCount[Direct] = 1
    /\ buffers[3].st = "playing"

\* C2 (as claimed): an accepted utterance never gets a second terminal
\* callback, and one that emitted a fragment has got exactly one by the time
\* nothing is left to happen.
C2_ExactlyOneTerminal ==
    \A u \in Invoked :
        Accepted(u) =>
            /\ Terminals(u) <= 1
            /\ (Quiescent /\ utts[u].sent > 0) => Terminals(u) = 1

\* C3 (as claimed): every invocation of generateSpeech gets a terminal
\* callback; once nothing is left to happen it has got one.
C3_AlwaysTerminal ==
    Quiescent => \A u \in Invoked : Terminals(u) >= 1

C5_LateFragmentsDiscarded ==
    \A u \in Invoked : cancelAt[u] >= 0 => utts[u].sent = cancelAt[u]

\* C6 (as claimed): in the state in which StreamingAudioSource.stop() returns
\* the queue is empty, no source of the engine is playing or referenced, and
\* isAudioPlaying() is false.
C6_StopSilences ==
    lastOp.op = "stop" =>
        LET e == lastOp.arg IN
        /\ engines[e].audioQueue = <<>>
        /\ engines[e].currentSource = Null
        /\ ~isAudioPlaying(World, e)
        /\ \A b \in OnEngine(e) : buffers[b].st # "playing"

NothingQueuedOrPlaying ==
    /\ \A e \in Engines : engines[e].audioQueue = <<>> /\ ~engines[e].isPlaying
    /\ \A b \in DOMAIN buffers : buffers[b].st # "playing"

\* C7 (as claimed): a stop() right after a stop() changes nothing, and so does
\* a stop() made while nothing is queued or playing.
C7_StopIdempotent ==
    [][lastOp'.op = "stop"
         => /\ lastOp.op = "stop" => UNCHANGED ProgVars
            /\ NothingQueuedOrPlaying => UNCHANGED ProgVars]_vars

\* the clamp, written out case by case
Clamped(v) == IF v > 10 THEN 10 ELSE IF v < 0 THEN 0 ELSE v

DisposedOps == {"queueAudioChunk", "setVolume", "stop", "getAnalyser"}

\* C9 (as claimed): a call of queueAudioChunk, setVolume, stop or getAnalyser
\* on a disposed source throws and changes nothing.
C9_DisposedOpsFail ==
    [][(engines[1].ctxClosed /\ lastOp'.op \in DisposedOps)
         => lastOp'.threw /\ UNCHANGED ProgVars]_vars

\* C10: initialize() on an initialized manager creates no source and changes
\* nothing.
C10_InitializeIdempotent ==
    [][(mgr.isInitialized /\ lastOp'.op = "initialize")
         => UNCHANGED ProgVars]_vars

\* C10 witness: initialize() has returned early on an initialized manager.
C10_Witness ==
    /\ lastOp.op = "initialize"
    /\ lastOp.arg = 1
    /\ mgr.isInitialized
    /\ nEngines(World) = 1

\* the sources that have been constructed and not disposed
Undisposed == {e \in Engines : engines[e].created /\ ~engines[e].ctxClosed}

\* C11 (as claimed): at most one undisposed StreamingAudioSource exists, and
\* the manager references every undisposed one.
C11_OneEngine ==
    /\ Cardinality(Undisposed) <= 1
    /\ \A e \in Undisposed : mgr.streamingAudioSource = e

\* C12 (as claimed): an undisposed source has its analyser, and while the
\* manager is initialized its getAnalyser() returns a non-null analyser.
C12_AnalyserAvailable ==
    /\ \A e \in Undisposed : getAnalyser(World, e)
    /\ mgr.isInitialized => mgrGetAnalyser(World)

\* C13 (as claimed): playback is gapless: at the moment the audio of one
\* fragment ends the next queued fragment starts, so no fragment waits in the
\* queue behind a source that has already finished.
C13_Gapless ==
    \A b \in DOMAIN buffers :
        buffers[b].st = "finished" => engines[buffers[b].engine].audioQueue = <<>>

\* some loop of playAudioQueue on e is still going to take from the queue
DrainPending(e) ==
    \/ \E b \in OnEngine(e) : Pending(b)
    \/ \E i \in DOMAIN microtasks : microtasks[i].t = "rejected" /\ microtasks[i].e = e

\* C14 (as claimed): a fragment whose playback fails does not stop the
\* fragments queued behind it: whatever is still queued has a drain loop that
\* is going to play it.
C14_FailureIsolated ==
    \A e \in Engines : engines[e].audioQueue # <<>> => DrainPending(e)

\* generateSpeech threw into its catch block: it resolved false after onError
FailedStates == {"failed", "nosrc"}
\* the step in which the producer of u fails
FailsNow(u) == utts[u].st = "timer" /\ utts'[u].st = "failed"
\* a fragment that was cut off: stopped while playing, or cleared from the queue
CutOff(b) == buffers[b].st \in {"stopped", "cleared"}

C16_CancelledFinishes ==
    Quiescent => \A u \in Invoked : cancelAt[u] >= 0 => finishCount[u] >= 1

\* C17 (as claimed): the step in which an utterance fails leaves isGenerating
\* false, and once an utterance has failed the next generateSpeech on the
\* initialized, idle manager starts its producer.
C17_FailureDoesNotBlock ==
    [][/\ \A u \in DOMAIN utts' :
              (utts'[u].st \in FailedStates /\ (u \in DOMAIN utts => utts[u].st = "timer"))
                  => ~mgr'.isGenerating
       /\ (/\ Len(utts') = Len(utts) + 1
           /\ mgr.isInitialized /\ ~mgr.isGenerating
           /\ \E u \in Invoked : utts[u].st \in FailedStates)
              => utts'[Len(utts')].st \in {"timer", "done"}]_vars

\* C18 (as claimed): once the first fragment of an utterance is queued and no
\* continuation is pending, its generateSpeech promise has resolved.
C18_ResolvesAtFirstFragment ==
    \A u \in Invoked :
        (utts[u].sent >= 1 /\ microtasks = <<>>) => utts[u].st # "timer"

InitializeCompletes ==
    /\ microtasks # <<>>
    /\ Head(microtasks).t = "initDone"
    /\ microtasks' = Tail(microtasks)

\* C20: both flags are false on a new manager and when dispose() returns;
\* isInitialized turns true exactly when initialize() completes, with the
\* voices set, and turns false exactly in dispose().
C20_InitializedLifecycle ==
    /\ ~mgr.isInitialized /\ ~mgr.isGenerating
    /\ [][/\ lastOp'.op = "dispose" => ~mgr'.isInitialized /\ ~mgr'.isGenerating
          /\ InitializeCompletes => mgr'.isInitialized /\ mgr'.voices
          /\ (~mgr.isInitialized /\ mgr'.isInitialized) => InitializeCompletes
          /\ (mgr.isInitialized /\ ~mgr'.isInitialized) => lastOp'.op = "dispose"]_vars

\* C20 witness: dispose() has returned on a manager that was initialized and
\* had an utterance in production.
C20_Witness ==
    /\ lastOp.op = "dispose"
    /\ ~mgr.isInitialized
    /\ ~mgr.isGenerating
    /\ mgr.voices
    /\ utts # <<>>
    /\ utts[1].st = "timer"

\* C21 (as claimed): a generateSpeech call with an empty text is turned down
\* (it resolves false) and queues no fragment.
C21_EmptyTextRejected ==
    [][(lastOp'.op = "generateSpeech" /\ lastOp'.arg = 0 /\ Len(utts') = Len(utts) + 1)
         => /\ utts'[Len(utts')].st \in {"uninit", "busy", "nosrc"}
            /\ buffers' = buffers]_vars

\* C22 (as claimed): whatever the speed, the producer of an utterance has a
\* finite number of fragments to emit.
C22_FiniteFragments ==
    \A u \in Invoked : utts[u].total < Unbounded

\* the chunks some started source carries
Played == UNION {Range(player.sources[n].chunks) : n \in DOMAIN player.sources}

\* C23 (as claimed): while the player is streaming and no start is suspended,
\* every chunk passed to queueAudio has been started, without finalizeAudio().
C23_PlaysAsGenerated ==
    (player.isStreaming /\ player.awaiting = 0)
        => Range(player.audioChunks) \subseteq Played

\* the wrapper forwarded options to motionManager.speakText
Forwarded == wrap.via \in {"speakText", "speak"} /\ wrap.st # "idle"
\* the caller's value if supplied, else the configured one, else the built-in
Resolve(a, c, b) == IF a # Absent THEN a ELSE IF c # Absent THEN c ELSE b
\* the config applies to speak() only
Configured(c) == IF wrap.via = "speak" THEN c ELSE Absent

\* C24 (as claimed): the voice, speed and volume forwarded are the caller's
\* when supplied, otherwise the configured default, otherwise the built-in.
C24_Precedence ==
    Forwarded =>
        /\ wrap.forwarded.voice =
               Resolve(wrap.options.voice, Configured(wrap.config.defaultVoice), AfHeart)
        /\ wrap.forwarded.speed =
               Resolve(wrap.options.speed, Configured(wrap.config.defaultSpeed), BuiltinSpeed)
        /\ wrap.forwarded.volume =
               Resolve(wrap.options.volume, Configured(wrap.config.defaultVolume), BuiltinVolume)

\* motionManager.speakText has just rejected
JustRejected == lastOp = Call("event", 1)

\* C25: speakText never rejects; when the underlying call rejects, the error
\* goes once to options.onError if there is one, and is only logged if not.
C25_SpeakTextNeverRejects ==
    Forwarded =>
        /\ wrap.st # "rejected"
        /\ JustRejected =>
               /\ wrap.st = "resolved"
               /\ wrap.onErrorCalls = (IF wrap.options.onError THEN 1 ELSE 0)
               /\ wrap.logged = (IF wrap.options.onError THEN 0 ELSE 1)
        /\ ~JustRejected => wrap.onErrorCalls = 0 /\ wrap.logged = 0

\* C25 witness: the underlying call rejected, onError got the error once and
\* the promise resolved.
C25_Witness ==
    /\ JustRejected
    /\ wrap.via = "speakText"
    /\ wrap.options.onError
    /\ wrap.onErrorCalls = 1
    /\ wrap.st = "resolved"

\* C26 (as claimed): VtuberGameTTSMigrator.speak delegates to speakText with
\* streaming available and otherwise completes without failing.
C26_MigratorFallsBack ==
    wrap.via = "migrator" =>
        /\ wrap.st # "rejected"
        /\ wrap.useStreaming => wrap.forwarded # NoForward

\* C27 (as claimed): isGenerating is true as long as the producer of an
\* utterance that was not stopped is still emitting.
C27_GeneratingWhileProducing ==
    \A u \in Invoked :
        (utts[u].st = "timer" /\ cancelAt[u] < 0) => mgr.isGenerating

\* how many sources carried chunk c
Starts(c) ==
    Cardinality({n \in DOMAIN player.sources : c \in Range(player.sources[n].chunks)})
\* no buffer of a StreamingAudioSource was started twice
NoBufferRestarted ==
    \A i, j \in DOMAIN started : i # j => started[i] # started[j]

\* C28 (as claimed): no chunk of the player and no buffer of a
\* StreamingAudioSource is started for playback more than once.
C28_ConsumedOnce ==
    /\ \A c \in 1..player.queued : Starts(c) <= 1
    /\ NoBufferRestarted

\* C29 (as claimed): lip sync is enabled only while the player is streaming.
C29_LipSyncOnlyStreaming ==
    player.lipSyncEnabled => player.isStreaming

\* the output graph of a source, its volume and its callbacks
Graph(e) ==
    <<engines[e].analyserNode, engines[e].gainNode, engines[e].gain,
      engines[e].volume, engines[e].onFinish, engines[e].onError,
      engines[e].ctxClosed>>
Released(e) ==
    <<engines[e].analyserNode, engines[e].gainNode, engines[e].ctxClosed>>

\* C30: stop() leaves the gain node, the analyser, the volume, the callbacks
\* and the audio context as they are; only dispose() releases the graph.
C30_StopReleasesNothing ==
    [][\A e \in Engines :
          /\ (lastOp'.op = "stop" /\ lastOp'.arg = e) => Graph(e)' = Graph(e)
          /\ (engines[e].created /\ Released(e)' # Released(e))
                 => lastOp'.op = "dispose" /\ lastOp'.arg = e]_vars

\* C30 witness: stop() has stopped a playing buffer on a source whose volume
\* and callbacks had been set; the graph is still there.
C30_Witness ==
    /\ lastOp = Call("stop", 1)
    /\ engines[1].gainNode /\ engines[1].analyserNode /\ ~engines[1].ctxClosed
    /\ engines[1].volume = 8 /\ engines[1].gain = 8
    /\ engines[1].onFinish = Direct
    /\ \E b \in OnEngine(1) : buffers[b].st = "stopped"

\* a source of the player is sounding
PlayerPlaying == \E n \in DOMAIN player.sources : player.sources[n].st = "playing"

\* C31: every queueAudio call posts exactly one 'buffer_processed', in the
\* call itself, whether or not a source is still playing.
C31_AckPerChunk ==
    /\ [](player.acks = player.queued)
    /\ [][player'.queued # player.queued
            => /\ player'.queued = player.queued + 1
               /\ player'.acks = player.acks + 1]_vars

\* C31 witness: the second and third chunk were acknowledged while the source
\* started for the first is still playing.
C31_Witness ==
    /\ player.acks = 3
    /\ player.sourceNode # Null
    /\ player.sources[player.sourceNode].st = "playing"
    /\ player.sources[player.sourceNode].chunks = <<1>>

\* the buffers of e that are sounding
PlayingOn(e) == {b \in OnEngine(e) : buffers[b].st = "playing"}

\* C32 (as claimed): on every StreamingAudioSource at most one started buffer
\* source is playing.
C32_OneDrainLoop ==
    \A e \in Engines : Cardinality(PlayingOn(e)) <= 1

\* C33 (as claimed): the callbacks of an utterance fire, and its closures
\* clear isGenerating, only in the step in which one of its own fragments
\* ends or fails.
C33_CallbacksOwnUtterance ==
    [][\A u \in Invoked :
          (finishCount'[u] # finishCount[u])
              => \E b \in DOMAIN buffers :
                     /\ buffers[b].utt = u
                     /\ buffers[b].st # buffers'[b].st
                     /\ buffers'[b].st \in {"ended", "failed"}]_vars

\* C34 (as claimed): when isAudioPlaying() is false and no playback is
\* pending, the queue is empty.
C34_NoStrandedFragment ==
    \A e \in Engines :
        (~isAudioPlaying(World, e) /\ ~DrainPending(e))
            => engines[e].audioQueue = <<>>

\* C35 (as claimed): when stop() or reset() has returned no source of the
\* player is playing, and the event that follows starts none.
C35_StoppedStaysSilent ==
    /\ [](lastOp.op \in {"stop", "reset"} => ~PlayerPlaying)
    /\ [][(lastOp.op \in {"stop", "reset"} /\ lastOp'.op = "event")
            => Len(player'.sources) = Len(player.sources)]_vars

\* C36 (as claimed): after dispose() the producer of an utterance in flight
\* ends in its next step: generateSpeech resolves false with onError fired
\* once and no fragment queued; the manager is neither initialized nor
\* generating when dispose() returns.
C36_DisposeEndsGeneration ==
    /\ [](lastOp.op = "dispose" => ~mgr.isInitialized /\ ~mgr.isGenerating)
    /\ [][\A u \in Invoked :
             (lastOp.op = "dispose" /\ utts[u].st = "timer" /\ utts'[u] # utts[u])
                 => /\ utts'[u].st = "failed"
                    /\ errorCount'[u] = errorCount[u] + 1
                    /\ buffers' = buffers]_vars

\* C38 (as claimed): currentSource refers to the buffer source that is
\* playing.
C38_CurrentSourceIsPlaying ==
    \A b \in DOMAIN buffers :
        buffers[b].st = "playing" => engines[buffers[b].engine].currentSource = b

\* C39: a queueAudio call initiates startStreamingPlayback exactly when it
\* is the first since construction or reset(), that is when it finds no chunk.
C39_StartOncePerSession ==
    [][player'.queued # player.queued
         => ((player'.awaiting = player.awaiting + 1) <=> (player.audioChunks = <<>>))]_vars

\* C39 witness: after a reset() the next chunk has initiated playback again,
\* the first start being still suspended.
C39_Witness ==
    /\ lastOp.op = "queueAudio"
    /\ player.queued = 2
    /\ player.audioChunks = <<2>>
    /\ player.awaiting = 2

\* the characterSpeak calls that have not settled
InFlight == {i \in DOMAIN dialogue.loops : dialogue.loops[i].at \in {"speak", "rejected"}}

\* C37: at most one processQueue loop is active and at most one
\* characterSpeak call is in flight; the calls are made in addDialogue order
\* and the dialogues not yet spoken wait in that order; isProcessing is true
\* exactly while the loop is active, and nothing waits when it is false; when
\* a call fails while dialogues wait, the same step calls the next one.
C37_SequentialDialogue ==
    /\ [](/\ Len(dialogue.loops) <= 1
          /\ Cardinality(InFlight) <= 1
          /\ \A k \in DOMAIN dialogue.calls : dialogue.calls[k] = k
          /\ \A k \in DOMAIN dialogue.dialogueQueue :
                 dialogue.dialogueQueue[k].id = Len(dialogue.calls) + k
          /\ Len(dialogue.calls) + Len(dialogue.dialogueQueue) = dialogue.added
          /\ dialogue.isProcessing <=> dialogue.loops # <<>>
          /\ ~dialogue.isProcessing => dialogue.dialogueQueue = <<>>)
    /\ [][(/\ lastOp'.op = "event" /\ lastOp'.arg = 1
           /\ dialogue' # dialogue
           /\ dialogue.dialogueQueue # <<>>)
            => /\ dialogue'.calls = Append(dialogue.calls, dialogue.dialogueQueue[1].id)
               /\ dialogue'.isProcessing]_vars

\* C37 witness: the first dialogue failed, the second is being spoken, and
\* the third, added meanwhile, waits in the queue.
C37_Witness ==
    /\ dialogue.failed = {1}
    /\ dialogue.calls = <<1, 2>>
    /\ Len(dialogue.dialogueQueue) = 1
    /\ dialogue.loops # <<>>
    /\ dialogue.loops[1].at = "speak"

====
